---- MODULE Spec2Model ----
(***************************************************************************)
(* Fragment finders of hls.js: calculateNextPdt / calculateNextPDT,        *)
(* findFragmentByPDT, findFragmentBySN and fragmentWithinToleranceTest.    *)
(*                                                                         *)
(* The repository holds two variants of the module:                        *)
(*   "this"     src/src/controller/fragment-finders.js, which reads the    *)
(*              tolerance and the previous fragment from the ambient       *)
(*              object `this` and keeps the tolerance test as a closure;   *)
(*   "explicit" src/unnamed/part_000, which takes every input as a         *)
(*              parameter and exports the tolerance test as a function.    *)
(*                                                                         *)
(* Media times (start, duration, bufferEnd, end, tolerance, deltaPTS) are  *)
(* whole seconds, program date times are milliseconds.  The comparisons    *)
(* of the tolerance test are homogeneous in the time unit, so the          *)
(* documented case bufferEnd = 9.991, fragments [0,10] [10,20], tolerance  *)
(* 0.25 has the same outcome as bufferEnd = 1, fragments [0,2] [2,4],      *)
(* tolerance 1.                                                            *)
(***************************************************************************)
EXTENDS Integers, Sequences, FiniteSets, TLC

VARIABLES
    variant,                \* which of the two source variants is running
    fragments,              \* the fragment sequence handed to the finders
    fragPrevious,           \* the last fragment appended, or Null
    bufferEnd,              \* end of the buffered range, seconds
    end,                    \* computed end of the stream, seconds
    maxFragLookUpTolerance, \* the tolerance of the call, seconds
    this,                   \* ambient object of the "this" variant
    start,                  \* PTS of the first fragment of the level
    levelDetails,           \* [programDateTime |-> string], "" when absent
    PDTValue,               \* target of findFragmentByPDT
    hasFragments,           \* FALSE when findFragmentByPDT is given no array
    op,                     \* the operation that produced result
    result                  \* what the last operation returned

vars == <<variant, fragments, fragPrevious, bufferEnd, end,
          maxFragLookUpTolerance, this, start, levelDetails, PDTValue,
          hasFragments, op, result>>

-----------------------------------------------------------------------------
(* Bounds of the model.                                                    *)

MaxLen == 3      \* longest fragment sequence
MaxDur == 2      \* longest fragment duration, seconds
MaxTol == 2      \* largest maxFragLookUpTolerance, seconds
FirstSN == 3     \* sequence number of fragments[0]

HoleSize == {1}      \* length of a hole in the media timeline, seconds
DeltaSize == {1}     \* deltaPTS of a fragment that carries one, seconds

-----------------------------------------------------------------------------
(* JavaScript values.  A number that can be undefined or NaN is carried    *)
(* with a tag; arithmetic and comparison follow ECMAScript: undefined      *)
(* converts to NaN, NaN propagates through + - min, and every comparison   *)
(* with NaN is false.                                                      *)

Null == [null |-> TRUE]
Fault == [fault |-> "TypeError"]

JsNum(n) == [t |-> "number", v |-> n]
JsNaN == [t |-> "NaN", v |-> 0]
JsUndefined == [t |-> "undefined", v |-> 0]
JsArray(list) == [t |-> "object", v |-> list]

ToNumber(x) == IF x.t = "number" THEN x ELSE JsNaN
IsNaN(x) == ToNumber(x).t = "NaN"
JsPlus(a, b) == IF IsNaN(a) \/ IsNaN(b) THEN JsNaN ELSE JsNum(a.v + b.v)
JsMinus(a, b) == IF IsNaN(a) \/ IsNaN(b) THEN JsNaN ELSE JsNum(a.v - b.v)
JsMin(a, b) ==
    IF IsNaN(a) \/ IsNaN(b) THEN JsNaN
    ELSE JsNum(IF a.v < b.v THEN a.v ELSE b.v)
JsLE(a, b) == ~IsNaN(a) /\ ~IsNaN(b) /\ a.v <= b.v
JsGT(a, b) == ~IsNaN(a) /\ ~IsNaN(b) /\ a.v > b.v
JsLT(a, b) == ~IsNaN(a) /\ ~IsNaN(b) /\ a.v < b.v
JsGE(a, b) == ~IsNaN(a) /\ ~IsNaN(b) /\ a.v >= b.v
Truthy(x) == x.t = "number" /\ x.v # 0

-----------------------------------------------------------------------------
(* Fragments.                                                              *)

Fragment(sn, st, dur, delta, pdt) ==
    [sn |-> sn, start |-> st, duration |-> dur, deltaPTS |-> delta,
     pdt |-> pdt, endPdt |-> IF pdt = 0 THEN 0 ELSE pdt + dur * 1000]

IsFragment(x) == x # Null /\ x # Fault

After == 1
Match == 0
Before == -1

-----------------------------------------------------------------------------
(* fragmentWithinToleranceTest.  bufferEnd_ and tolerance_ are JavaScript  *)
(* values: BinarySearch.search calls its comparison function with the      *)
(* candidate alone, which leaves the other two parameters undefined.       *)

\* the two outer return codes exchanged
fragmentWithinToleranceTest_swapped(candidate, bufferEnd_, tolerance_) ==
    LET candidateLookupTolerance ==
            JsMin(tolerance_,
                  JsNum(candidate.duration
                        + (IF candidate.deltaPTS # 0 THEN candidate.deltaPTS ELSE 0)))
    IN  IF JsLE(JsMinus(JsNum(candidate.start + candidate.duration),
                        candidateLookupTolerance), bufferEnd_)
        THEN -1
        ELSE IF JsGT(JsMinus(JsNum(candidate.start), candidateLookupTolerance),
                     bufferEnd_) /\ candidate.start # 0
             THEN 1
             ELSE 0

fragmentWithinToleranceTest(candidate, bufferEnd_, tolerance_) ==
    LET candidateLookupTolerance ==
            JsMin(tolerance_,
                  JsNum(candidate.duration
                        + (IF candidate.deltaPTS # 0 THEN candidate.deltaPTS ELSE 0)))
    IN  IF JsLE(JsMinus(JsNum(candidate.start + candidate.duration),
                        candidateLookupTolerance), bufferEnd_)
        THEN After
        ELSE IF JsGT(JsMinus(JsNum(candidate.start), candidateLookupTolerance),
                     bufferEnd_) /\ candidate.start # 0
             THEN Before
             ELSE Match

-----------------------------------------------------------------------------
(* BinarySearch.search(list, comparisonFunction): codes[i] is what the     *)
(* comparison function returns for list[i].  A positive code moves the     *)
(* lower bound up, a negative one the upper bound down, zero returns the   *)
(* element; an exhausted range returns null.                               *)

RECURSIVE SearchRange(_, _, _, _)
SearchRange(list, codes, minIndex, maxIndex) ==
    IF minIndex > maxIndex THEN Null
    ELSE LET currentIndex == (minIndex + maxIndex) \div 2
         IN  IF codes[currentIndex] > 0
             THEN SearchRange(list, codes, currentIndex + 1, maxIndex)
             ELSE IF codes[currentIndex] < 0
                  THEN SearchRange(list, codes, minIndex, currentIndex - 1)
                  ELSE list[currentIndex]

BinarySearch(list, codes) == SearchRange(list, codes, 1, Len(list))

-----------------------------------------------------------------------------
(* findFragmentBySN.                                                       *)

\* fragments[fragPrevious.sn - fragments[0].sn + 1], undefined out of range
FragNext(fragPrevious_, fragments_) ==
    IF fragPrevious_ = Null THEN Null
    ELSE LET index == fragPrevious_.sn - fragments_[1].sn + 1
         IN  IF index >= 0 /\ index < Len(fragments_)
             THEN fragments_[index + 1]
             ELSE Null

\* bufferEnd > end - maxFragLookUpTolerance zeroes the tolerance
EffectiveTolerance(bufferEnd_, end_, tolerance_) ==
    IF bufferEnd_ > end_ - tolerance_ THEN 0 ELSE tolerance_

\* the negation of the fast-path test dropped
findFragmentBySN_unnegated(fragPrevious_, fragments_, bufferEnd_, end_, tolerance_) ==
    LET fragNext == FragNext(fragPrevious_, fragments_)
        tol == EffectiveTolerance(bufferEnd_, end_, tolerance_)
    IN  IF bufferEnd_ < end_
        THEN IF fragNext # Null
                /\ fragmentWithinToleranceTest(fragNext, JsNum(bufferEnd_),
                                               JsNum(tol)) # 0
             THEN fragNext
             ELSE BinarySearch(fragments_,
                      [i \in 1..Len(fragments_) |->
                          fragmentWithinToleranceTest(fragments_[i], JsUndefined,
                                                      JsUndefined)])
        ELSE Null

\* src/unnamed/part_000: the search is given the exported test itself
findFragmentBySN(fragPrevious_, fragments_, bufferEnd_, end_, tolerance_) ==
    LET fragNext == FragNext(fragPrevious_, fragments_)
        tol == EffectiveTolerance(bufferEnd_, end_, tolerance_)
    IN  IF bufferEnd_ < end_
        THEN IF fragNext # Null
                /\ fragmentWithinToleranceTest(fragNext, JsNum(bufferEnd_),
                                               JsNum(tol)) = 0
             THEN fragNext
             ELSE BinarySearch(fragments_,
                      [i \in 1..Len(fragments_) |->
                          fragmentWithinToleranceTest(fragments_[i], JsUndefined,
                                                      JsUndefined)])
        ELSE Null

\* src/src/controller/fragment-finders.js: the tolerance comes from
\* this.hls.config and the test is a closure over bufferEnd and the tolerance
findFragmentBySN_this(this_, fragPrevious_, fragments_, bufferEnd_, end_) ==
    LET config == this_.hls.config
        fragNext == FragNext(fragPrevious_, fragments_)
        tol == EffectiveTolerance(bufferEnd_, end_, config.maxFragLookUpTolerance)
    IN  IF bufferEnd_ < end_
        THEN IF fragNext # Null
                /\ fragmentWithinToleranceTest(fragNext, JsNum(bufferEnd_),
                                               JsNum(tol)) = 0
             THEN fragNext
             ELSE BinarySearch(fragments_,
                      [i \in 1..Len(fragments_) |->
                          fragmentWithinToleranceTest(fragments_[i],
                                                      JsNum(bufferEnd_), JsNum(tol))])
        ELSE Null


-----------------------------------------------------------------------------
(* findFragmentByPDT.  A pdt or endPdt of 0 stands for an absent field,    *)
(* which JavaScript reads as undefined.  fragments_ and PDTValue_ are      *)
(* JavaScript values: an array or undefined, a number, NaN or undefined.   *)

PdtField(n) == IF n = 0 THEN JsUndefined ELSE JsNum(n)

\* for (seg = 0; seg < fragments.length; ++seg) if (PDTValue < frag.endPdt) return frag
RECURSIVE ScanByPDT(_, _, _)
ScanByPDT(fragments_, PDTValue_, seg) ==
    IF seg > Len(fragments_) THEN Null
    ELSE IF JsLT(PDTValue_, PdtField(fragments_[seg].endPdt))
         THEN fragments_[seg]
         ELSE ScanByPDT(fragments_, PDTValue_, seg + 1)

\* the scan comparing with <= where the code compares with <
RECURSIVE ScanByPDT_inclusive(_, _, _)
ScanByPDT_inclusive(fragments_, PDTValue_, seg) ==
    IF seg > Len(fragments_) THEN Null
    ELSE IF JsLE(PDTValue_, PdtField(fragments_[seg].endPdt))
         THEN fragments_[seg]
         ELSE ScanByPDT_inclusive(fragments_, PDTValue_, seg + 1)

findFragmentByPDT_inclusive(fragments_, PDTValue_) ==
    IF fragments_.t # "object" \/ ~Truthy(PDTValue_) THEN Null
    ELSE IF Len(fragments_.v) = 0 THEN Fault
    ELSE LET firstSegment == fragments_.v[1]
             lastSegment == fragments_.v[Len(fragments_.v)]
         IN  IF JsLT(PDTValue_, PdtField(firstSegment.pdt)) THEN Null
             ELSE IF JsGE(PDTValue_, PdtField(lastSegment.endPdt)) THEN Null
             ELSE ScanByPDT_inclusive(fragments_.v, PDTValue_, 1)

findFragmentByPDT(fragments_, PDTValue_) ==
    IF fragments_.t # "object" \/ ~Truthy(PDTValue_) THEN Null
    ELSE IF Len(fragments_.v) = 0 THEN Fault   \* firstSegment is undefined
    ELSE LET firstSegment == fragments_.v[1]
             lastSegment == fragments_.v[Len(fragments_.v)]
         IN  IF JsLT(PDTValue_, PdtField(firstSegment.pdt)) THEN Null
             ELSE IF JsGE(PDTValue_, PdtField(lastSegment.endPdt)) THEN Null
             ELSE ScanByPDT(fragments_.v, PDTValue_, 1)

-----------------------------------------------------------------------------
(* calculateNextPDT (part_000) and calculateNextPdt (fragment-finders.js). *)
(* levelDetails.programDateTime is a string, "" when absent.  Date.parse   *)
(* gives the milliseconds of a well-formed date and NaN for anything else. *)

DateParse(s) ==
    CASE s = "1970-01-01T00:00:01.000Z" -> JsNum(1000)
      [] s = "1970-01-01T00:00:05.000Z" -> JsNum(5000)
      [] OTHER -> JsNaN

ProgramDateTimes ==
    {"", "1970-01-01T00:00:01.000Z", "1970-01-01T00:00:05.000Z", "not a date"}

calculateNextPDT(start_, bufferEnd_, fragPrevious_, levelDetails_) ==
    IF fragPrevious_ # Null /\ fragPrevious_.pdt # 0
    THEN JsNum(fragPrevious_.pdt + (fragPrevious_.duration * 1000))
    ELSE IF levelDetails_.programDateTime # ""
         THEN JsMinus(JsPlus(JsNum(bufferEnd_ * 1000),
                             DateParse(levelDetails_.programDateTime)),
                      JsNum(1000 * start_))
         ELSE JsNum(0)

\* reads this.fragPrevious where the parameter was tested
calculateNextPdt(this_, start_, bufferEnd_, fragPrevious_, levelDetails_) ==
    IF fragPrevious_ # Null /\ fragPrevious_.pdt # 0
    THEN IF this_.fragPrevious = Null THEN Fault
         ELSE JsPlus(PdtField(this_.fragPrevious.pdt),
                     JsNum(this_.fragPrevious.duration * 1000))
    ELSE IF levelDetails_.programDateTime # ""
         THEN JsMinus(JsPlus(JsNum(bufferEnd_ * 1000),
                             DateParse(levelDetails_.programDateTime)),
                      JsNum(1000 * start_))
         ELSE JsNum(0)

-----------------------------------------------------------------------------
(* Inputs.                                                                 *)

Variants == {"this", "explicit"}

\* start of fragment i: the durations before it, plus the hole if the hole
\* lies in front of fragment `at` <= i (at = 0: no hole)
RECURSIVE StartOf(_, _, _, _)
StartOf(durs, at, hole, i) ==
    IF i = 1 THEN (IF at = 1 THEN hole ELSE 0)
    ELSE StartOf(durs, at, hole, i - 1) + durs[i - 1]
             + (IF at = i THEN hole ELSE 0)

\* sequences ordered by sn and by start, without program date time: at most
\* one hole (a discontinuity, or a first fragment that does not start at 0)
\* and, when drift is set, at most one fragment carrying a deltaPTS
TimedSeqs(drift) ==
    UNION { { [i \in 1..n |->
                 Fragment(FirstSN + i - 1, StartOf(d, at, hole, i), d[i],
                          IF i = dp THEN delta ELSE 0, 0)] :
              d \in [1..n -> 0..MaxDur], at \in 0..n, hole \in HoleSize,
              dp \in (IF drift THEN 0..n ELSE {0}), delta \in DeltaSize }
            : n \in 1..MaxLen }

LevelEnd(fragments_) ==
    fragments_[Len(fragments_)].start + fragments_[Len(fragments_)].duration

\* a previous fragment that has left the playlist window
StaleFragment(sn) == Fragment(sn, 0, 1, 0, 0)

\* before the first load there is no previous fragment, or one of an
\* earlier playlist window
PreviousOf(fragments_) == {Null, StaleFragment(FirstSN - 1)}

ThisOf(tolerance_, fragPrevious_) ==
    [fragPrevious |-> fragPrevious_,
     hls |-> [config |-> [maxFragLookUpTolerance |-> tolerance_]]]

NoLevelDetails == [programDateTime |-> ""]

-----------------------------------------------------------------------------
(* The sequence-number locator driven as the stream controller drives it:  *)
(* locate a fragment, load it (it becomes fragPrevious and the buffer end  *)
(* moves), locate again.                                                   *)

InitSN ==
    /\ variant \in Variants
    /\ fragments \in TimedSeqs(FALSE)
    /\ fragPrevious \in PreviousOf(fragments)
    /\ bufferEnd \in 0..(LevelEnd(fragments) + 1)
    /\ end \in {LevelEnd(fragments), LevelEnd(fragments) + 1}
    /\ maxFragLookUpTolerance \in 0..MaxTol
    /\ this = ThisOf(maxFragLookUpTolerance, fragPrevious)
    /\ start = 0
    /\ levelDetails = NoLevelDetails
    /\ PDTValue = JsUndefined
    /\ hasFragments = TRUE
    /\ op = "idle"
    /\ result = Null

Locate ==
    /\ op \in {"idle", "loaded"}
    /\ result' = IF variant = "this"
                 THEN findFragmentBySN_this(this, fragPrevious, fragments,
                                            bufferEnd, end)
                 ELSE findFragmentBySN(fragPrevious, fragments, bufferEnd, end,
                                       maxFragLookUpTolerance)
    /\ op' = "located"
    /\ UNCHANGED <<variant, fragments, fragPrevious, bufferEnd, end,
                   maxFragLookUpTolerance, this, start, levelDetails, PDTValue,
                   hasFragments>>

Load ==
    /\ op = "located"
    /\ IsFragment(result)
    /\ fragPrevious' = result
    /\ bufferEnd' \in 0..(LevelEnd(fragments) + 1)
    /\ this' = ThisOf(maxFragLookUpTolerance, result)
    /\ op' = "loaded"
    /\ UNCHANGED <<variant, fragments, end, maxFragLookUpTolerance, start,
                   levelDetails, PDTValue, hasFragments, result>>

NextSN == Locate \/ Load

SpecSN == InitSN /\ [][NextSN]_vars

-----------------------------------------------------------------------------
(* The tolerance test applied to every fragment of a sequence, as the      *)
(* ordered search would see it.                                            *)

InitTol ==
    /\ variant = "explicit"
    /\ fragments \in TimedSeqs(TRUE)
    /\ fragPrevious = Null
    /\ bufferEnd \in 0..(LevelEnd(fragments) + 1)
    /\ end = LevelEnd(fragments)
    /\ maxFragLookUpTolerance \in 0..MaxTol
    /\ this = ThisOf(maxFragLookUpTolerance, Null)
    /\ start = 0
    /\ levelDetails = NoLevelDetails
    /\ PDTValue = JsUndefined
    /\ hasFragments = TRUE
    /\ op = "idle"
    /\ result = Null

ClassifyAll ==
    /\ op = "idle"
    /\ result' = [i \in 1..Len(fragments) |->
                     fragmentWithinToleranceTest(fragments[i], JsNum(bufferEnd),
                                                 JsNum(maxFragLookUpTolerance))]
    /\ op' = "classified"
    /\ UNCHANGED <<variant, fragments, fragPrevious, bufferEnd, end,
                   maxFragLookUpTolerance, this, start, levelDetails, PDTValue,
                   hasFragments>>

NextTol == ClassifyAll

SpecTol == InitTol /\ [][NextTol]_vars

-----------------------------------------------------------------------------
(* The program-date-time locator.                                          *)

FirstPdts == {1000}
PdtSteps == {0, 1000, 2000}   \* pdt of a fragment minus pdt of the one before

RECURSIVE PdtOf(_, _, _)
PdtOf(first, steps, i) ==
    IF i = 1 THEN first ELSE PdtOf(first, steps, i - 1) + steps[i]

\* sequences with pdt non-decreasing and endPdt = pdt + duration * 1000;
\* a step below the duration overlaps, a step above it leaves a hole
PdtSeqs ==
    UNION { { [i \in 1..n |->
                 Fragment(FirstSN + i - 1,
                          StartOf(d, 0, 0, i), d[i], 0,
                          PdtOf(first, s, i))] :
              d \in [1..n -> 0..MaxDur], s \in [2..n -> PdtSteps],
              first \in FirstPdts } : n \in 0..MaxLen }

PDTValues ==
    {JsUndefined, JsNaN}
        \cup {JsNum(500 * k) : k \in 0..(2 * (MaxLen + MaxDur) + 2 * MaxLen)}

InitPDT ==
    /\ variant = "explicit"
    /\ fragments \in PdtSeqs
    /\ hasFragments \in BOOLEAN
    /\ fragPrevious = Null
    /\ bufferEnd = 0
    /\ end = 0
    /\ maxFragLookUpTolerance = 0
    /\ this = ThisOf(0, Null)
    /\ start = 0
    /\ levelDetails = NoLevelDetails
    /\ PDTValue \in PDTValues
    /\ op = "idle"
    /\ result = Null

LocateByPDT ==
    /\ op = "idle"
    /\ result' = findFragmentByPDT(IF hasFragments THEN JsArray(fragments)
                                    ELSE JsUndefined, PDTValue)
    /\ op' = "locatedByPDT"
    /\ UNCHANGED <<variant, fragments, fragPrevious, bufferEnd, end,
                   maxFragLookUpTolerance, this, start, levelDetails, PDTValue,
                   hasFragments>>

NextPDT == LocateByPDT

SpecPDT == InitPDT /\ [][NextPDT]_vars

-----------------------------------------------------------------------------
(* The program-date-time projector.                                        *)

\* a chain without discontinuity: each pdt is the endPdt of the one before
ChainSeqs ==
    { f \in PdtSeqs :
        /\ Len(f) >= 1
        /\ \A i \in 1..(Len(f) - 1) : f[i + 1].pdt = f[i].endPdt }

WithoutPdt(f) == Fragment(f.sn, f.start, f.duration, f.deltaPTS, 0)

FragmentsOf(fragments_) ==
    {fragments_[i] : i \in 1..Len(fragments_)}
        \cup {WithoutPdt(fragments_[i]) : i \in 1..Len(fragments_)}

InitProj ==
    /\ variant \in Variants
    /\ fragments \in ChainSeqs
    /\ fragPrevious \in {Null} \cup FragmentsOf(fragments)
    /\ bufferEnd \in 0..1
    /\ end = LevelEnd(fragments)
    /\ maxFragLookUpTolerance = 0
    /\ \E p \in {Null} \cup FragmentsOf(fragments) : this = ThisOf(0, p)
    /\ start \in 0..1
    /\ levelDetails \in [programDateTime : ProgramDateTimes]
    /\ PDTValue = JsUndefined
    /\ hasFragments = TRUE
    /\ op = "idle"
    /\ result = Null

Project ==
    /\ op = "idle"
    /\ result' = IF variant = "this"
                 THEN calculateNextPdt(this, start, bufferEnd, fragPrevious,
                                       levelDetails)
                 ELSE calculateNextPDT(start, bufferEnd, fragPrevious,
                                       levelDetails)
    /\ op' = "projected"
    /\ UNCHANGED <<variant, fragments, fragPrevious, bufferEnd, end,
                   maxFragLookUpTolerance, this, start, levelDetails, PDTValue,
                   hasFragments>>

NextProj == Project

SpecProj == InitProj /\ [][NextProj]_vars

-----------------------------------------------------------------------------
(* Vocabulary of the claims.                                               *)

\* the tolerance the call works with, after the edge rule
Tolerance == EffectiveTolerance(bufferEnd, end, maxFragLookUpTolerance)

\* the tolerance test with this call's bufferEnd and tolerance
Classified(candidate) ==
    fragmentWithinToleranceTest(candidate, JsNum(bufferEnd), JsNum(Tolerance))

NextOfPrevious == FragNext(fragPrevious, fragments)

LastFragment == fragments[Len(fragments)]

Contiguous ==
    \A i \in 1..(Len(fragments) - 1) :
        fragments[i + 1].start = fragments[i].start + fragments[i].duration

PositiveDurations == \A i \in 1..Len(fragments) : fragments[i].duration > 0

InSequence(frag) == \E i \in 1..Len(fragments) : fragments[i] = frag

-----------------------------------------------------------------------------
(* C1.  findFragmentByPDT on a non-empty sequence and a non-zero target.   *)

PdtTarget == PDTValue.t = "number" /\ PDTValue.v # 0

PdtCall == op = "locatedByPDT" /\ hasFragments /\ Len(fragments) >= 1 /\ PdtTarget

OutOfPdtRange ==
    PDTValue.v < fragments[1].pdt \/ PDTValue.v >= LastFragment.endPdt

FirstEndingAfter(i) ==
    /\ fragments[i].endPdt > PDTValue.v
    /\ \A j \in 1..(i - 1) : fragments[j].endPdt <= PDTValue.v

C1_RangeAndFirst ==
    PdtCall =>
        IF OutOfPdtRange THEN result = Null
        ELSE \E i \in 1..Len(fragments) :
                FirstEndingAfter(i) /\ result = fragments[i]

C1_NeverTheEndedOne ==
    PdtCall =>
        \A i \in 1..(Len(fragments) - 1) :
            PDTValue.v = fragments[i].endPdt => result # fragments[i]

NoPdtOverlap ==
    \A i \in 1..(Len(fragments) - 1) : fragments[i + 1].pdt >= fragments[i].endPdt

\* C1 as claimed: none out of range, otherwise the lowest-index fragment
\* whose endPdt is greater than the target; a target equal to seq[i].endPdt
\* never returns seq[i] and returns seq[i+1] whenever seq[i+1].duration > 0.
C1_Original ==
    /\ C1_RangeAndFirst
    /\ C1_NeverTheEndedOne
    /\ PdtCall =>
          \A i \in 1..(Len(fragments) - 1) :
              (PDTValue.v = fragments[i].endPdt /\ fragments[i + 1].duration > 0)
                  => result = fragments[i + 1]

\* C1 amended: as claimed, except that a target equal to seq[i].endPdt
\* returns seq[i+1] (when seq[i+1].duration > 0) only in a sequence of
\* non-negative durations whose fragments do not overlap in program date
\* time.
C1_PdtLocator ==
    /\ C1_RangeAndFirst
    /\ C1_NeverTheEndedOne
    /\ (PdtCall /\ NoPdtOverlap) =>
          \A i \in 1..(Len(fragments) - 1) :
              (PDTValue.v = fragments[i].endPdt /\ fragments[i + 1].duration > 0)
                  => result = fragments[i + 1]

C1_Witness ==
    /\ PdtCall
    /\ NoPdtOverlap
    /\ Len(fragments) >= 2
    /\ PDTValue.v = fragments[1].endPdt
    /\ fragments[2].duration > 0
    /\ result = fragments[2]

-----------------------------------------------------------------------------
(* C2.  The search path of findFragmentBySN.                               *)

SearchPathAsClaimed ==
    /\ op = "located"
    /\ bufferEnd < end
    /\ (NextOfPrevious = Null \/ Classified(NextOfPrevious) = After)

\* C2 as claimed: when bufferEnd < end and the fast path is not taken, the
\* fragment returned is one the tolerance test classifies as Match with this
\* call's bufferEnd and tolerance.
C2_SearchReturnsMatch ==
    (SearchPathAsClaimed /\ IsFragment(result)) => Classified(result) = Match

-----------------------------------------------------------------------------
(* C3.  The fast path of findFragmentBySN.                                 *)

FastPathCall == op = "located" /\ bufferEnd < end /\ NextOfPrevious # Null

\* C3 as claimed: fragNext in range and not classified After (Match or
\* Before) is returned directly.
C3_Original ==
    (FastPathCall /\ Classified(NextOfPrevious) # After)
        => result = NextOfPrevious

\* C3 amended: fragNext in range and classified Match is returned directly.
C3_FastPath ==
    (FastPathCall /\ Classified(NextOfPrevious) = Match)
        => result = NextOfPrevious

C3_Witness ==
    /\ FastPathCall
    /\ InSequence(fragPrevious)
    /\ Classified(NextOfPrevious) = Match
    /\ result = NextOfPrevious

-----------------------------------------------------------------------------
(* C4.  The stream edge.                                                   *)

SecondToLast == Len(fragments) >= 2 /\ fragPrevious = fragments[Len(fragments) - 1]

\* C4 as claimed: contiguous sequence, end = last.start + last.duration,
\* last.start <= bufferEnd < end, fragPrevious absent or second-to-last:
\* the last fragment is returned.
C4_EdgeReturnsLast ==
    ( /\ op = "located"
      /\ Contiguous
      /\ end = LevelEnd(fragments)
      /\ LastFragment.start <= bufferEnd
      /\ bufferEnd < end
      /\ (fragPrevious = Null \/ SecondToLast) )
        => result = LastFragment

-----------------------------------------------------------------------------
(* C5.  Sequential playback does not select the same fragment again.       *)

SmallGapAfterLoad ==
    /\ op = "loaded"
    /\ Contiguous
    /\ bufferEnd < end
    /\ bufferEnd <= fragPrevious.start + fragPrevious.duration
    /\ bufferEnd >= fragPrevious.start + fragPrevious.duration
                       - maxFragLookUpTolerance

\* C5 as claimed: after a load, with bufferEnd at most maxFragLookUpTolerance
\* before the end of the fragment just loaded and bufferEnd < end, the next
\* locate call does not return that fragment again.
C5_NoReselection ==
    [][SmallGapAfterLoad => result' # fragPrevious]_vars

-----------------------------------------------------------------------------
(* C9.  Short fragments.                                                   *)

\* C9 as claimed: contiguous sequence with positive durations, fragPrevious
\* = seq[k-1], bufferEnd = seq[k].start < end: seq[k] is returned.
C9_ShortNotSkipped ==
    ( /\ op = "located"
      /\ Contiguous
      /\ PositiveDurations
      /\ InSequence(fragPrevious)
      /\ NextOfPrevious # Null
      /\ bufferEnd = NextOfPrevious.start
      /\ bufferEnd < end )
        => result = NextOfPrevious

-----------------------------------------------------------------------------
(* C10.  Order of the classifications along a sequence.                    *)

NoDeltaPTS == \A i \in 1..Len(fragments) : fragments[i].deltaPTS = 0

\* C10 as claimed: no indices i < j with seq[i] classified After and seq[j]
\* classified Before.
C10_Original ==
    op = "classified" =>
        ~ \E i, j \in 1..Len(fragments) :
              i < j /\ result[i] = After /\ result[j] = Before

\* C10 amended: for a tolerance >= 0 and fragments of non-negative duration
\* without deltaPTS there are no indices i < j with seq[i] classified Before
\* and seq[j] classified After.
C10_Monotone ==
    (op = "classified" /\ NoDeltaPTS) =>
        ~ \E i, j \in 1..Len(fragments) :
              i < j /\ result[i] = Before /\ result[j] = After

C10_Witness ==
    /\ op = "classified"
    /\ NoDeltaPTS
    /\ Len(fragments) = 3
    /\ result = <<After, Match, Before>>

-----------------------------------------------------------------------------
(* C6.  The projector chained from the previous fragment.                  *)

\* C6 as claimed: fragPrevious with a non-zero pdt gives
\* fragPrevious.pdt + fragPrevious.duration * 1000, whatever the other
\* arguments and the ambient state; along a chain that is the pdt of the
\* next fragment.
C6_ChainedFromPrevious ==
    (op = "projected" /\ fragPrevious # Null /\ fragPrevious.pdt # 0) =>
        /\ result = JsNum(fragPrevious.pdt + fragPrevious.duration * 1000)
        /\ \A i \in 1..(Len(fragments) - 1) :
              fragPrevious = fragments[i] => result = JsNum(fragments[i + 1].pdt)

-----------------------------------------------------------------------------
(* C7.  findFragmentByPDT without a sequence or without a target.          *)

\* C7 as claimed: an absent or empty sequence, or a zero or absent target,
\* gives none and no fault.
C7_NoneWithoutFault ==
    (op = "locatedByPDT"
        /\ (~hasFragments \/ Len(fragments) = 0 \/ ~Truthy(PDTValue)))
        => result = Null

-----------------------------------------------------------------------------
(* C8.  The projector given a malformed programDateTime.                   *)

Malformed(s) == s # "" /\ DateParse(s) = JsNaN

\* C8 as claimed: fragPrevious absent or without pdt and a malformed
\* levelDetails.programDateTime give 0.
C8_MalformedGivesZero ==
    ( /\ op = "projected"
      /\ (fragPrevious = Null \/ fragPrevious.pdt = 0)
      /\ Malformed(levelDetails.programDateTime) )
        => result = JsNum(0)

====
